---- MODULE Spec2Model ----
(***************************************************************************)
(* Model of bot.py: a Discord bot that lists, starts, stops and restarts   *)
(* docker containers.  Strings are sequences of one-character strings, so  *)
(* that lower(), strip(), split() and substring tests are computed.        *)
(* Handlers are coroutines of one asyncio event loop: a handler runs from  *)
(* one await to the next while holding the loop (variable running), and    *)
(* subprocess.run / requests.post are synchronous calls made on that loop. *)
(***************************************************************************)
EXTENDS Integers, Sequences, FiniteSets, TLC

VARIABLES env, inv, running, ac, authq

vars == <<env, inv, running, ac, authq>>

\* ------------------------------------------------------------------ bounds
NumInv == 2
MaxList == 30
MaxRoleId == 2
SmallList == 1

\* ------------------------------------------------------------------ strings
\* A Python value that may be None is a sequence of length 0 (None) or 1.
None == <<>>
Some(v) == <<v>>
\* Python truthiness of an optional string: neither None nor ""
Truthy(opt) == opt # None /\ opt[1] # <<>>

\* the backquote character (the lexer of TLA+ does not accept it in a string)
BQ == "bq"

UpperCase == <<"A","B","C","D","E","F","G","H","I","J","K","L","M",
               "N","O","P","Q","R","S","T","U","V","W","X","Y","Z">>
LowerCase == <<"a","b","c","d","e","f","g","h","i","j","k","l","m",
               "n","o","p","q","r","s","t","u","v","w","x","y","z">>

LowerChar(c) ==
    IF \E k \in 1..Len(UpperCase) : UpperCase[k] = c
    THEN LowerCase[CHOOSE k \in 1..Len(UpperCase) : UpperCase[k] = c]
    ELSE c

lower(s) == [k \in 1..Len(s) |-> LowerChar(s[k])]

IsSpace(c) == c \in {" ", "\n", "\t", "\r"}

RECURSIVE lstrip(_)
lstrip(s) == IF s # <<>> /\ IsSpace(Head(s)) THEN lstrip(Tail(s)) ELSE s

RECURSIVE rstrip(_)
rstrip(s) ==
    IF s # <<>> /\ IsSpace(s[Len(s)]) THEN rstrip(SubSeq(s, 1, Len(s) - 1)) ELSE s

strip(s) == rstrip(lstrip(s))

startswith(s, p) == Len(p) <= Len(s) /\ SubSeq(s, 1, Len(p)) = p

\* Python's  s[:n]
Slice(s, n) == [k \in 1..(IF Len(s) < n THEN Len(s) ELSE n) |-> s[k]]

\* Python's  sub in s
Contains(sub, s) ==
    \E k \in 0..(Len(s) - Len(sub)) : SubSeq(s, k + 1, k + Len(sub)) = sub

HasChar(s, c) == \E k \in 1..Len(s) : s[k] = c

FirstIndex(s, c) == CHOOSE k \in 1..Len(s) : s[k] = c /\ \A j \in 1..(k - 1) : s[j] # c

\* s.split(c, 1) for an s that contains c
split1(s, c) ==
    <<SubSeq(s, 1, FirstIndex(s, c) - 1), SubSeq(s, FirstIndex(s, c) + 1, Len(s))>>

\* s.splitlines(), line boundaries being "\n"
RECURSIVE splitlines(_)
splitlines(s) ==
    IF s = <<>> THEN <<>>
    ELSE IF HasChar(s, "\n")
         THEN <<split1(s, "\n")[1]>> \o splitlines(split1(s, "\n")[2])
         ELSE <<s>>

\* "\n".join(lines)
RECURSIVE join(_)
join(lines) ==
    IF lines = <<>> THEN <<>>
    ELSE IF Len(lines) = 1 THEN lines[1]
    ELSE lines[1] \o <<"\n">> \o join(Tail(lines))

\* fnmatch.fnmatch(name, pat) on a POSIX host, for patterns of literals, * and ?
RECURSIVE fnmatch(_, _)
fnmatch(name, pat) ==
    IF pat = <<>> THEN name = <<>>
    ELSE IF Head(pat) = "*"
         THEN fnmatch(name, Tail(pat)) \/ (name # <<>> /\ fnmatch(Tail(name), pat))
         ELSE /\ name # <<>>
              /\ (Head(pat) = "?" \/ Head(pat) = Head(name))
              /\ fnmatch(Tail(name), Tail(pat))

\* int(s) for a string of decimal digits
Digits == <<"0","1","2","3","4","5","6","7","8","9">>
DigitVal(c) == (CHOOSE k \in 1..10 : Digits[k] = c) - 1

RECURSIVE int(_)
int(s) == IF s = <<>> THEN 0 ELSE 10 * int(SubSeq(s, 1, Len(s) - 1)) + DigitVal(s[Len(s)])

\* str(n) for a natural number
RECURSIVE str(_)
str(n) == IF n < 10 THEN <<Digits[n + 1]>> ELSE str(n \div 10) \o <<Digits[(n % 10) + 1]>>

\* os.getenv(name): None when the variable is unset
getenv1(name) == env[name]

\* os.getenv(name, default)
getenv(name, default) == IF env[name] = None THEN default ELSE env[name][1]

\* ------------------------------------------------------------------ config
ALLOWED_ROLE == int(getenv("ALLOWED_ROLE", <<"0">>))

WEBHOOK_URL == getenv1("DISCORD_WEBHOOK_URL")

HOSTNAME == getenv("HOSTNAME", <<"h","o","s","t">>)

ENABLE_AAF == lower(getenv("ENABLE_AAF_RENAME", <<"f","a","l","s","e">>)) = <<"t","r","u","e">>

\* ------------------------------------------------------------------ processes
\* The outcome of one subprocess.run(..., capture_output=True, text=True):
\* kind "exited" (the process ran and exited with returncode), "oserror" (the
\* executable could not be spawned) or "decode_error" (its output is not text).
Proc(kind, rc, out, err) == [kind |-> kind, returncode |-> rc, stdout |-> out, stderr |-> err]

OSErrorText == <<"E","N","O","E","N","T">>
DecodeErrorText == <<"u","t","f","8">>

\* str(e) of the exception subprocess.run raises for a process that did not run
SpawnErrorText(proc) == IF proc.kind = "oserror" THEN OSErrorText ELSE DecodeErrorText

\* variant: the exit status is not looked at
run_docker_cmd_NoFail(proc) ==
    IF proc.kind # "exited"
    THEN [raised |-> TRUE, value |-> SpawnErrorText(proc)]
    ELSE [raised |-> FALSE, value |-> strip(proc.stdout)]

\* run_docker_cmd: [raised |-> TRUE, value |-> str(e)] or the stripped stdout
run_docker_cmd(proc) ==
    IF proc.kind # "exited"
    THEN [raised |-> TRUE, value |-> SpawnErrorText(proc)]
    ELSE IF proc.returncode # 0
         THEN [raised |-> TRUE, value |-> strip(proc.stderr)]
         ELSE [raised |-> FALSE, value |-> strip(proc.stdout)]

\* the docker arguments get_containers passes
ListCmd(only_running) == IF only_running THEN "ps" ELSE "ps -a"

\* one loop iteration of get_containers: does the line yield a record?
KeepLine(line, only_stopped) ==
    /\ HasChar(line, "|")
    /\ ~(only_stopped /\ startswith(lower(strip(split1(line, "|")[2])), <<"u","p">>))
    /\ LET container_filter == strip(getenv("CONTAINER_FILTER", <<>>))
       IN  (container_filter # <<>> /\ container_filter # <<"*">>)
              => fnmatch(strip(split1(line, "|")[1]), container_filter)

RecordOf(line) == <<strip(split1(line, "|")[1]), strip(split1(line, "|")[2])>>

\* get_containers, given the outcome of its docker ps process
get_containers(only_stopped, proc) ==
    IF run_docker_cmd(proc).raised THEN <<>>
    ELSE LET lines == splitlines(run_docker_cmd(proc).value)
             kept == SelectSeq(lines, LAMBDA l : KeepLine(l, only_stopped))
         IN  [k \in 1..Len(kept) |-> RecordOf(kept[k])]

\* ------------------------------------------------------------------ hook
NBSPS_PREFIX == <<"W","E","B","H","O","O","K","_","N","B","S","P","S","_",
                  "W","R","I","T","T","E","N",":">>
GAME_PREFIX == <<"W","E","B","H","O","O","K","_","G","A","M","E","_",
                 "L","I","N","E",":">>

\* variant: the script is run whatever the toggle says
HookToggleOn_Always == TRUE

\* the guard of call_external_script, read from the environment at call time
HookToggleOn ==
    ~(lower(getenv("ENABLE_AAF_RENAME", <<"f","a","l","s","e">>)) # <<"t","r","u","e">>)

\* the value the scanning loop leaves in a variable: that of the last matching line
LastMatch(lines, prefix) ==
    IF \E k \in 1..Len(lines) : startswith(lines[k], prefix)
    THEN LET k == CHOOSE j \in 1..Len(lines) :
                      /\ startswith(lines[j], prefix)
                      /\ \A m \in (j + 1)..Len(lines) : ~startswith(lines[m], prefix)
         IN  Some(strip(split1(lines[k], ":")[2]))
    ELSE None

HookResult(raised, nb, gl) == [raised |-> raised, nbspaces |-> nb, gameline |-> gl]

\* variant: without the try/except around subprocess.run
call_external_script_NoCatch(proc) ==
    IF proc.kind # "exited" THEN HookResult(TRUE, None, None)
    ELSE HookResult(FALSE, LastMatch(splitlines(proc.stdout), NBSPS_PREFIX),
                           LastMatch(splitlines(proc.stdout), GAME_PREFIX))

\* call_external_script once the toggle is on, given the script's process outcome
call_external_script(proc) ==
    IF proc.kind # "exited" THEN HookResult(FALSE, None, None)
    ELSE HookResult(FALSE, LastMatch(splitlines(proc.stdout), NBSPS_PREFIX),
                           LastMatch(splitlines(proc.stdout), GAME_PREFIX))

\* ------------------------------------------------------------------ notifier
Field(name, value, inline) == [name |-> name, value |-> value, inline |-> inline]

Capitalized(action) ==
    CASE action = "start" -> "Start" [] action = "restart" -> "Restart"
      [] action = "stop" -> "Stop" [] OTHER -> action

\* colors: 0x00FF00, 0xFFFF00, 0xFF0000, and 0x808080 for an unknown action
ColorOf(action) ==
    CASE action = "start" -> 65280 [] action = "restart" -> 16776960
      [] action = "stop" -> 16711680 [] OTHER -> 8421504

AuxFieldNames == {"Non-breaking Spaces Written", "Game Name Line"}

\* the embed send_webhook builds (the timestamp is left out)
Embed(user, container_name, action, nbspaces, gameline) ==
    [title |-> <<"Container", Capitalized(action), "Executed">>,
     color |-> IF action = "restart" /\ Truthy(nbspaces) /\ ENABLE_AAF
               THEN 65280 ELSE ColorOf(action),
     fields |->
        <<Field("Container", <<BQ>> \o container_name \o <<BQ>>, TRUE),
          Field("User", user.name \o <<" ", "(">> \o str(user.id) \o <<")">>, TRUE),
          Field("Server Host", <<BQ>> \o HOSTNAME \o <<BQ>>, FALSE)>>
        \o (IF ENABLE_AAF /\ (Truthy(nbspaces) \/ Truthy(gameline))
            THEN <<Field("Non-breaking Spaces Written",
                         IF nbspaces = None THEN <<"N","o","n","e">> ELSE nbspaces[1], TRUE),
                   Field("Game Name Line",
                         IF Truthy(gameline) THEN gameline[1]
                         ELSE <<"(","n","o","t"," ","f","o","u","n","d",")">>, FALSE)>>
            ELSE <<>>)]

\* variant: without the try/except around requests.post
send_webhook_raises_NoCatch(post) == post = "transport_error"

\* does send_webhook raise, given how requests.post ended (try/except)
send_webhook_raises(post) == FALSE

\* ------------------------------------------------------------------ authorization
\* variant: without the administrator shortcut
is_authorized_NoAdmin(user) ==
    \E k \in 1..Len(user.roles) : user.roles[k] = ALLOWED_ROLE

is_authorized(user) ==
    IF user.admin THEN TRUE
    ELSE \E k \in 1..Len(user.roles) : user.roles[k] = ALLOWED_ROLE

\* ------------------------------------------------------------------ replies
DeniedText == <<"(cross mark)", " ", "You don't have permission to do that.">>

Gerund(cmd) ==
    CASE cmd = "restart" -> "restarting" [] cmd = "stop" -> "stopping"
      [] cmd = "start" -> "starting"

Past(cmd) ==
    CASE cmd = "restart" -> "Restarted" [] cmd = "stop" -> "Stopped"
      [] cmd = "start" -> "Started"

Glyph(cmd) ==
    CASE cmd = "restart" -> "(yellow circle)" [] cmd = "stop" -> "(red circle)"
      [] cmd = "start" -> "(green circle)"

ErrorText(cmd, container, e) ==
    <<"(warning)", " ", "Error", " ", Gerund(cmd), " ", BQ>> \o container \o <<BQ, ":", " ">> \o e

SuccessText(cmd, container) ==
    <<Glyph(cmd), " ", Past(cmd), " ", BQ>> \o container \o <<BQ, " ", "successfully.">>

NoneFoundText == <<"No containers found.">>

Row(rec) == <<"**">> \o rec[1] \o <<"**", " ", "(em dash)", " ">> \o rec[2]

ListText(recs) ==
    <<"(package)", " ", "**Containers:**", "\n">> \o join([k \in 1..Len(recs) |-> Row(recs[k])])

\* ------------------------------------------------------------------ events
\* What one invocation did, in order: ev is "send_message" (the initial response),
\* "defer", "followup", "hook_spawn", "hook_return", "docker_call",
\* "docker_return" or "post".
\* "hook_call" and "hook_return" are the call of call_external_script and its
\* return, "hook_spawn" the subprocess.run of the script.  Every message the
\* handlers send passes ephemeral=True.
Ev(ev, kind, text, embed) ==
    [ev |-> ev, kind |-> kind, text |-> text, embed |-> embed,
     ephemeral |-> ev \in {"send_message", "defer", "followup"}]

Inv == 1..NumInv

Commands == {"containers", "restart", "stop", "start"}

Idle ==
    [pc |-> "idle", cmd |-> "none", user |-> None, container |-> <<>>,
     nbspaces |-> None, gameline |-> None, hook |-> None, docker |-> None,
     post |-> "none", trace |-> <<>>]

\* the statements of a handler after the defer, in program order
\* variant: the docker action ahead of the hook
ProgramOrder_DockerFirst(cmd) ==
    CASE cmd \in {"restart", "start"} -> <<"docker", "hook", "webhook", "reply">>
      [] cmd = "stop" -> <<"docker", "webhook", "reply">>

ProgramOrder(cmd) ==
    CASE cmd \in {"restart", "start"} -> <<"hook", "docker", "webhook", "reply">>
      [] cmd = "stop" -> <<"docker", "webhook", "reply">>

NextStep(cmd, step) ==
    LET order == ProgramOrder(cmd)
        k == CHOOSE j \in 1..Len(order) : order[j] = step
    IN  order[k + 1]

\* variant: /stop without the permission check
Permitted_StopUnchecked(cmd, user) == cmd = "stop" \/ is_authorized(user)

\* the check every handler starts with
Permitted(cmd, user) == is_authorized(user)

\* the handler's  except Exception as e:  after the defer: rec is the invocation
\* when the exception is raised
Failed(rec, e) ==
    [rec EXCEPT !.pc = "done",
                !.trace = @ \o <<Ev("followup", "error",
                                    ErrorText(rec.cmd, rec.container, e), <<>>)>>]

\* ------------------------------------------------------------------ inputs
S_true == <<"t","r","u","e">>
S_True == <<"T","r","u","e">>
S_url == <<"u","r","l">>

EnvOf(role, url, aaf, filter) ==
    [ALLOWED_ROLE |-> role, DISCORD_WEBHOOK_URL |-> url, ENABLE_AAF_RENAME |-> aaf,
     CONTAINER_FILTER |-> filter, HOSTNAME |-> None]

\* the environments the bot is started in
Envs ==
    {EnvOf(None, Some(S_url), Some(S_True), None),
     EnvOf(Some(<<"1">>), Some(S_url), None, Some(<<"a","*">>)),
     EnvOf(Some(<<"2">>), None, Some(S_true), Some(<<"*">>))}

User(name, id, admin, roles) == [name |-> name, id |-> id, admin |-> admin, roles |-> roles]

\* an administrator without roles and a member who holds roles 3 and 1
Users ==
    {User(<<"a","l">>, 1, TRUE, <<>>),
     User(<<"b","o">>, 12, FALSE, <<3, 1>>)}

ContainerArgs == {<<"d","b">>}

\* how  docker restart|stop|start <name>  can end
ActionProcs ==
    {Proc("exited", 0, <<"d","b","\n">>, <<>>),
     Proc("exited", 1, <<>>, <<"n","o","\n">>)}

\* how  /app/scripts/pre_restart.sh <name>  can end
HookProcs ==
    {Proc("exited", 0, NBSPS_PREFIX \o <<"1","2","\n">> \o GAME_PREFIX \o <<" ","M","\n">>, <<>>),
     Proc("exited", 1, <<"x","\n">> \o NBSPS_PREFIX \o <<"3">>, <<"n","o">>),
     Proc("oserror", 0, <<>>, <<>>),
     Proc("decode_error", 0, <<>>, <<>>)}

\* how requests.post can end: a response (of any status) or an exception
PostOutcomes == {"ok", "transport_error"}

\* the name of the k-th container of the host, in bijective base 3 over a, A, b
NameChars == <<"a", "A", "b">>
RECURSIVE NameOf(_)
NameOf(k) ==
    IF k <= 3 THEN <<NameChars[k]>>
    ELSE NameOf((k - 1) \div 3) \o <<NameChars[((k - 1) % 3) + 1]>>

S_Up == <<"U","p"," ","3","h">>
S_Exited == <<"E","x","i","t","e","d"," ","(","0",")">>
S_Created == <<"C","r","e","a","t","e","d">>

\* the status docker reports for the k-th container
StatusOf(k) == IF k % 10 = 0 THEN S_Up ELSE IF k % 4 = 0 THEN S_Created ELSE S_Exited

\* the n lines of  docker ps -a  (containers off+1 .. off+n) or of  docker ps
\* (running containers only: every tenth one)
PsLines(n, off, all) ==
    LET ks == IF all THEN [j \in 1..n |-> j + off] ELSE [j \in 1..n |-> 10 * (j + off)]
    IN  [j \in 1..n |-> NameOf(ks[j]) \o <<"|">> \o StatusOf(ks[j])]

\* how  docker ps [-a] --format ...  can end on hosts of up to n containers
PsProcs(n, all) ==
    {Proc("exited", 0, join(PsLines(m, off, all)) \o <<"\n">>, <<>>) : m \in 0..n, off \in {0, 1}}
    \cup {Proc("exited", 1, <<>>, <<"n","o","\n">>)}

\* ------------------------------------------------------------------ handlers
\* A step of a handler runs it from where it was resumed to its next blocking
\* call (pc "in_hook", "in_docker", "in_post", "in_list"), which it makes while
\* holding the loop, or to its end.
Add(rec, events) == [rec EXCEPT !.trace = @ \o events]

\* rec.pc names the next statement of the try block: run on to the next
\* blocking call or to the end of the handler
RECURSIVE RunToBlock(_)
RunToBlock(rec) ==
    CASE rec.pc = "hook" ->
           \* call_external_script is entered (lines 66-72)
           IF HookToggleOn
           THEN Add([rec EXCEPT !.pc = "in_hook"],
                    <<Ev("hook_call", "", rec.container, <<>>),
                      Ev("hook_spawn", "", rec.container, <<>>)>>)
           ELSE RunToBlock(Add([rec EXCEPT !.pc = NextStep(rec.cmd, "hook"),
                                           !.nbspaces = None, !.gameline = None],
                               <<Ev("hook_call", "", rec.container, <<>>),
                                 Ev("hook_return", "disabled", <<>>, <<>>)>>))
      [] rec.pc = "docker" ->
           \* run_docker_cmd([cmd, container]) is entered (lines 177, 199, 215, 29)
           Add([rec EXCEPT !.pc = "in_docker"],
               <<Ev("docker_call", rec.cmd, rec.container, <<>>)>>)
      [] rec.pc = "webhook" ->
           \* send_webhook is entered (lines 92-130)
           IF ~Truthy(WEBHOOK_URL)
           THEN RunToBlock([rec EXCEPT !.pc = NextStep(rec.cmd, "webhook"),
                                       !.post = "skipped"])
           ELSE Add([rec EXCEPT !.pc = "in_post"],
                    <<Ev("post", rec.cmd, <<>>,
                         <<Embed(rec.user[1], rec.container, rec.cmd,
                                 rec.nbspaces, rec.gameline)>>)>>)
      [] rec.pc = "reply" ->
           \* the success follow-up (lines 181-183, 201, 217)
           Add([rec EXCEPT !.pc = "done"],
               <<Ev("followup", "success", SuccessText(rec.cmd, rec.container), <<>>)>>)
      [] OTHER -> rec

\* the handler of i goes on as rec: it keeps the loop unless it has ended
Update(i, rec) ==
    /\ inv' = [inv EXCEPT ![i] = rec]
    /\ running' = IF rec.pc = "done" THEN 0 ELSE i

\* a command arrives: the permission check, then the defer, at which the handler
\* is suspended (lines 150-152, 166-173, 194-197, 208-211); /containers goes
\* straight on to get_containers() (lines 153-154, 38-44).  Arrivals are
\* numbered in order.
Dispatch(i) ==
    /\ running = 0
    /\ inv[i].pc = "idle"
    /\ \A j \in 1..(i - 1) : inv[j].pc # "idle"
    /\ \E cmd \in Commands, user \in Users, container \in ContainerArgs :
         LET rec == [inv[i] EXCEPT !.cmd = cmd, !.user = Some(user),
                                   !.container = IF cmd = "containers" THEN <<>> ELSE container]
         IN  IF ~Permitted(cmd, user)
             THEN Update(i, Add([rec EXCEPT !.pc = "done"],
                                <<Ev("send_message", "denied", DeniedText, <<>>)>>))
             ELSE IF cmd = "containers"
                  THEN Update(i, Add([rec EXCEPT !.pc = "in_list"],
                                     <<Ev("docker_call", ListCmd(FALSE), <<>>, <<>>)>>))
                  ELSE /\ inv' = [inv EXCEPT ![i] =
                                      Add([rec EXCEPT !.pc = ProgramOrder(cmd)[1]],
                                          <<Ev("defer", "", <<>>, <<>>)>>)]
                       /\ running' = 0
    /\ UNCHANGED <<env, ac, authq>>

\* the defer is acknowledged and the loop resumes the handler, which runs on to
\* its first blocking call
Resume(i) ==
    /\ running = 0
    /\ inv[i].pc \in {"hook", "docker"}
    /\ Update(i, RunToBlock(inv[i]))
    /\ UNCHANGED <<env, ac, authq>>

\* the script's process ends (lines 76-88)
HookReturn(i) ==
    /\ running = i
    /\ inv[i].pc = "in_hook"
    /\ \E proc \in HookProcs :
         LET r == call_external_script(proc)
             rec == Add([inv[i] EXCEPT !.hook = Some(proc)],
                        <<Ev("hook_return", proc.kind, <<>>, <<>>)>>)
         IN  IF r.raised
             THEN Update(i, Failed(rec, SpawnErrorText(proc)))
             ELSE Update(i, RunToBlock([rec EXCEPT !.pc = NextStep(inv[i].cmd, "hook"),
                                                   !.nbspaces = r.nbspaces,
                                                   !.gameline = r.gameline]))
    /\ UNCHANGED <<env, ac, authq>>

\* the docker process ends (lines 30-32)
DockerReturn(i) ==
    /\ running = i
    /\ inv[i].pc = "in_docker"
    /\ \E proc \in ActionProcs :
         LET r == run_docker_cmd(proc)
             rec == Add([inv[i] EXCEPT !.docker = Some(proc)],
                        <<Ev("docker_return", proc.kind, <<>>, <<>>)>>)
         IN  IF r.raised
             THEN Update(i, Failed(rec, r.value))
             ELSE Update(i, RunToBlock([rec EXCEPT !.pc = NextStep(inv[i].cmd, "docker")]))
    /\ UNCHANGED <<env, ac, authq>>

\* requests.post ends (lines 130-133)
PostReturn(i) ==
    /\ running = i
    /\ inv[i].pc = "in_post"
    /\ \E post \in PostOutcomes :
         LET rec == [inv[i] EXCEPT !.post = post]
         IN  IF send_webhook_raises(post)
             THEN Update(i, Failed(rec, <<"E","C","O","N","N">>))
             ELSE Update(i, RunToBlock([rec EXCEPT !.pc = NextStep(inv[i].cmd, "webhook")]))
    /\ UNCHANGED <<env, ac, authq>>

\* docker ps -a ends and /containers answers (lines 45-62, 155-159)
ListReturn(i) ==
    /\ running = i
    /\ inv[i].pc = "in_list"
    /\ \E proc \in PsProcs(SmallList, TRUE) :
         LET recs == get_containers(FALSE, proc)
             rec == Add([inv[i] EXCEPT !.pc = "done", !.docker = Some(proc)],
                        <<Ev("docker_return", proc.kind, <<>>, <<>>)>>)
         IN  IF recs = <<>>
             THEN Update(i, Add(rec, <<Ev("send_message", "none_found", NoneFoundText, <<>>)>>))
             ELSE Update(i, Add(rec, <<Ev("send_message", "list", ListText(recs), <<>>)>>))
    /\ UNCHANGED <<env, ac, authq>>

InvNext(i) ==
    \/ Dispatch(i)
    \/ Resume(i)
    \/ HookReturn(i)
    \/ DockerReturn(i)
    \/ PostReturn(i)
    \/ ListReturn(i)

\* ------------------------------------------------------------------ autocomplete
AutocompleteCap == 25

Choice(rec) == [name |-> rec[1] \o <<" ", "(">> \o rec[2] \o <<")">>, value |-> rec[1]]

\* variant: without the [:25] slice
autocomplete_choices_NoCap(containers, current) ==
    LET hits == SelectSeq(containers, LAMBDA c : Contains(lower(current), lower(c[1])))
    IN  [k \in 1..Len(hits) |-> Choice(hits[k])]

\* the loop and the slice both providers end with
autocomplete_choices(containers, current) ==
    LET hits == SelectSeq(containers, LAMBDA c : Contains(lower(current), lower(c[1])))
    IN  Slice([k \in 1..Len(hits) |-> Choice(hits[k])], AutocompleteCap)

\* what the user has typed so far
Queries == {<<>>, <<"A">>, <<"A","b">>, <<"B">>, <<"b","b","b","b">>}

running_container_autocomplete ==
    /\ ac.pc = "idle"
    /\ \E current \in Queries, proc \in PsProcs(MaxList, FALSE) :
         ac' = [pc |-> "done", provider |-> "running", current |-> current,
                listed |-> get_containers(FALSE, proc),
                choices |-> autocomplete_choices(get_containers(FALSE, proc), current)]
    /\ UNCHANGED <<env, inv, running, authq>>

stopped_container_autocomplete ==
    /\ ac.pc = "idle"
    /\ \E current \in Queries, proc \in PsProcs(MaxList, TRUE) :
         ac' = [pc |-> "done", provider |-> "stopped", current |-> current,
                listed |-> get_containers(TRUE, proc),
                choices |-> autocomplete_choices(get_containers(TRUE, proc), current)]
    /\ UNCHANGED <<env, inv, running, authq>>

\* ------------------------------------------------------------------ authorization check alone
RoleLists == {<<>>} \cup {<<r>> : r \in 0..MaxRoleId}
                 \cup {<<r, q>> : r \in 0..MaxRoleId, q \in 0..MaxRoleId}

Members == {User(<<"m">>, 7, a, rs) : a \in BOOLEAN, rs \in RoleLists}

RoleEnvs == {EnvOf(r, None, None, None) : r \in {None} \cup {Some(str(k)) : k \in 0..MaxRoleId}}

CheckAuth ==
    /\ ~authq.asked
    /\ \E user \in Members :
         authq' = [asked |-> TRUE, user |-> Some(user), result |-> is_authorized(user)]
    /\ UNCHANGED <<env, inv, running, ac>>

NoQuery == [pc |-> "idle", provider |-> "none", current |-> <<>>, listed |-> <<>>, choices |-> <<>>]
NoAuth == [asked |-> FALSE, user |-> None, result |-> FALSE]

Init ==
    /\ env \in Envs
    /\ inv = [i \in Inv |-> Idle]
    /\ running = 0
    /\ ac = NoQuery
    /\ authq = NoAuth

Next == \E i \in Inv : InvNext(i)

Spec == Init /\ [][Next]_vars

\* the two autocomplete providers, one query each
NextAuto == running_container_autocomplete \/ stopped_container_autocomplete

SpecAuto == Init /\ [][NextAuto]_vars

\* is_authorized over every member and configured role
InitAuth ==
    /\ env \in RoleEnvs
    /\ inv = [i \in Inv |-> Idle]
    /\ running = 0
    /\ ac = NoQuery
    /\ authq = NoAuth

NextAuth == CheckAuth

SpecAuth == InitAuth /\ [][NextAuth]_vars

\* ------------------------------------------------------------------ properties
Actions == {"restart", "stop", "start"}

Dispatched(i) == inv[i].pc # "idle"
Caller(i) == inv[i].user[1]
Trace(i) == inv[i].trace
Idx(i) == 1..Len(inv[i].trace)
Has(i, ev) == \E k \in Idx(i) : Trace(i)[k].ev = ev
HasReply(i, kind) ==
    \E k \in Idx(i) : Trace(i)[k].ev \in {"send_message", "followup"} /\ Trace(i)[k].kind = kind
LastEvent(i) == Trace(i)[Len(Trace(i))]

\* the docker action of invocation i has ended with a non-zero exit status
DockerExitedNonZero(i) ==
    /\ inv[i].cmd \in Actions
    /\ inv[i].docker # None
    /\ inv[i].docker[1].kind = "exited"
    /\ inv[i].docker[1].returncode # 0

\* the docker action of invocation i has succeeded
DockerSucceeded(i) ==
    /\ inv[i].cmd \in Actions
    /\ inv[i].docker # None
    /\ inv[i].docker[1].kind = "exited"
    /\ inv[i].docker[1].returncode = 0

\* C1: an invocation by a user for whom is_authorized is false ends at once with
\* exactly the ephemeral "not authorized" reply: no defer, no docker command, no
\* hook, no webhook post, whatever the command.
C1_DeniedNoSideEffect ==
    \A i \in Inv :
        (Dispatched(i) /\ ~is_authorized(Caller(i))) =>
            /\ inv[i].pc = "done"
            /\ Len(Trace(i)) = 1
            /\ Trace(i)[1].ev = "send_message"
            /\ Trace(i)[1].kind = "denied"
            /\ Trace(i)[1].text = DeniedText
            /\ Trace(i)[1].ephemeral

C1_Witness ==
    \E i \in Inv : inv[i].pc = "done" /\ inv[i].cmd = "stop" /\ ~is_authorized(Caller(i))

C3_HookDockerNotifyReply ==
    \A i \in Inv :
        inv[i].cmd \in {"start", "restart"} =>
            \A k \in Idx(i) :
                /\ Trace(i)[k].ev = "docker_call" =>
                       \E h \in 1..(k - 1) : Trace(i)[h].ev = "hook_return"
                /\ Trace(i)[k].ev = "hook_spawn" =>
                       \A d \in 1..(k - 1) : Trace(i)[d].ev # "docker_call"
                /\ Trace(i)[k].ev = "post" =>
                       /\ DockerSucceeded(i)
                       /\ \E d \in 1..(k - 1) : Trace(i)[d].ev = "docker_return"
                /\ (Trace(i)[k].ev = "followup" /\ Trace(i)[k].kind = "success") =>
                       /\ k = Len(Trace(i))
                       /\ \E d \in 1..(k - 1) : Trace(i)[d].ev = "docker_return"
                       /\ Truthy(WEBHOOK_URL) => \E p \in 1..(k - 1) : Trace(i)[p].ev = "post"

C3_Witness ==
    \E i \in Inv :
        /\ inv[i].cmd = "restart" /\ inv[i].pc = "done"
        /\ Has(i, "hook_spawn") /\ Has(i, "post") /\ HasReply(i, "success")

\* C4: with the toggle disabled (ENABLE_AAF false) the hook script is never
\* spawned and no posted embed has a field named "Non-breaking Spaces Written"
\* or "Game Name Line".
C4_ToggleOffNoHookNoAux ==
    ~ENABLE_AAF =>
        \A i \in Inv :
            /\ ~Has(i, "hook_spawn")
            /\ inv[i].hook = None
            /\ \A k \in Idx(i) :
                   Trace(i)[k].ev = "post" =>
                       \A f \in 1..Len(Trace(i)[k].embed[1].fields) :
                           Trace(i)[k].embed[1].fields[f].name \notin AuxFieldNames

C4_Witness ==
    /\ ~ENABLE_AAF
    /\ \E i \in Inv : inv[i].cmd = "restart" /\ inv[i].pc = "done" /\ Has(i, "post")

\* C5: once the docker action of an invocation has succeeded there is never an
\* error reply, and the invocation ends with the success follow-up, whether the
\* webhook post succeeded, failed in transport or was skipped.
C5_NotifyNeverChangesReply ==
    \A i \in Inv :
        (DockerSucceeded(i) /\ is_authorized(Caller(i))) =>
            /\ ~HasReply(i, "error")
            /\ inv[i].pc \in {"in_post", "done"}
            /\ inv[i].post \in {"ok", "transport_error", "skipped"} => inv[i].pc = "done"
            /\ inv[i].pc = "done" =>
                   /\ LastEvent(i).ev = "followup"
                   /\ LastEvent(i).kind = "success"
                   /\ LastEvent(i).text = SuccessText(inv[i].cmd, inv[i].container)

C5_Witness ==
    \E i \in Inv :
        /\ DockerSucceeded(i) /\ inv[i].post = "transport_error"
        /\ inv[i].pc = "done" /\ HasReply(i, "success")

\* the hook script of invocation i could not be executed: subprocess.run raised
HookFailed(i) == inv[i].hook # None /\ inv[i].hook[1].kind # "exited"

\* C6: with the toggle on, when the execution of the hook script fails (it cannot
\* be spawned, or subprocess.run raises for another reason) the hook's result is
\* (None, None), the docker action is still called next, and an error reply can
\* only come from the docker action.
C6_HookFailureDegrades ==
    \A i \in Inv :
        HookFailed(i) =>
            /\ HookToggleOn
            /\ inv[i].nbspaces = None
            /\ inv[i].gameline = None
            /\ inv[i].pc \in {"in_docker", "in_post", "done"}
            /\ Has(i, "docker_call")
            /\ HasReply(i, "error") =>
                   inv[i].docker # None /\ run_docker_cmd(inv[i].docker[1]).raised

C6_Witness ==
    \E i \in Inv :
        /\ HookFailed(i) /\ inv[i].hook[1].kind = "oserror"
        /\ inv[i].pc = "done" /\ Has(i, "docker_call") /\ HasReply(i, "success")

\* C7: is_authorized is true exactly when the user is an administrator or one of
\* the user's roles has the configured role id; in particular it is false for a
\* non-administrator without roles when the configured id is 0.
C7_AuthorizedIff ==
    authq.asked =>
        /\ authq.result <=>
               (authq.user[1].admin
                \/ ALLOWED_ROLE \in {authq.user[1].roles[k] : k \in 1..Len(authq.user[1].roles)})
        /\ (ALLOWED_ROLE = 0 /\ ~authq.user[1].admin /\ authq.user[1].roles = <<>>)
               => ~authq.result

C7_Witness ==
    /\ authq.asked /\ authq.result /\ ~authq.user[1].admin
    /\ ALLOWED_ROLE = 2 /\ authq.user[1].roles = <<1, 2>>

\* C8: an autocomplete provider returns at most 25 choices, and the container
\* name of every choice, lowercased, contains the lowercased query.
C8_AutocompleteCapAndMatch ==
    ac.pc = "done" =>
        /\ Len(ac.choices) <= 25
        /\ \A k \in 1..Len(ac.choices) :
               /\ Contains(lower(ac.current), lower(ac.choices[k].value))
               /\ \E j \in 1..Len(ac.listed) : ac.listed[j][1] = ac.choices[k].value
        /\ ac.current = <<>> =>
               Len(ac.choices) = (IF Len(ac.listed) < 25 THEN Len(ac.listed) ELSE 25)

C8_Witness ==
    /\ ac.pc = "done" /\ ac.provider = "stopped" /\ ac.current = <<"A">>
    /\ Len(ac.choices) = 25 /\ Len(ac.listed) > 25
    /\ \E j \in 1..Len(ac.listed) : ~Contains(<<"a">>, lower(ac.listed[j][1]))

\* C9: while one invocation is inside a blocking call (the hook script, a docker
\* command, the webhook post), another invocation whose handler is under way can
\* take a step.
C9_BlockingCallDoesNotStall ==
    \A i, j \in Inv :
        (i # j /\ inv[i].pc \in {"in_hook", "in_docker", "in_list", "in_post"}
               /\ inv[j].pc \notin {"idle", "done"})
            => ENABLED InvNext(j)

\* C10: in every invocation the defer precedes any call of the container runtime
\* or of the hook, and a result other than the denial is sent as a follow-up.
C10_DeferBeforeRuntime ==
    \A i \in Inv :
        \A k \in Idx(i) :
            /\ Trace(i)[k].ev \in {"docker_call", "hook_call"} =>
                   \E d \in 1..(k - 1) : Trace(i)[d].ev = "defer"
            /\ Trace(i)[k].ev = "send_message" => Trace(i)[k].kind = "denied"

====
